---- MODULE Spec2Model ----
(***************************************************************************)
(* Model of the Markdown -> Portable Text converter of noveli-prg-seo     *)
(* (generateKey, processBoldAndEmphasis, markdownToPortableText), of the   *)
(* batch loop of main() and of fetchWithRetry.                             *)
(*                                                                         *)
(* A JavaScript string is modelled as a sequence of one-character strings, *)
(* so that indexing, slicing and concatenation are those of the source.    *)
(* Source indices are 0-based, the model's are 1-based: text[i] of the     *)
(* source is text[i+1] here, and the loop variable i starts at 1.          *)
(***************************************************************************)
EXTENDS Integers, Sequences, FiniteSets, TLC

VARIABLES
    \* processBoldAndEmphasis, one call under scan
    text, i, currentText, isBold, isItalic, segments, tokPc, tokResult,
    \* markdownToPortableText, one call in progress
    markdown, cleanedMarkdown, paragraphs, blocks, document, pc,
    \* markdownToPortableText, the locals of a second call in progress
    second,
    \* main: the titles read from titles.json, the locals of main() and of its
    \* loop body, the documents posted to the content store, and the calls
    \* made so far
    titles, validTitles, item, content, imageAsset, successCount, failureCount,
    sent, events, mainPc,
    \* fetchWithRetry, one call in progress: its parameters and locals, the
    \* calls of fn and the sleeps made so far, and how the call ended
    maxRetries, attempt, delay, lastError, retryLog, retryPc, retryOutcome

tokVars  == <<text, i, currentText, isBold, isItalic, segments, tokPc, tokResult>>
convVars == <<markdown, cleanedMarkdown, paragraphs, blocks, document, pc>>
mainVars == <<titles, validTitles, item, content, imageAsset, successCount,
              failureCount, sent, events, mainPc>>
retryVars == <<maxRetries, attempt, delay, lastError, retryLog, retryPc, retryOutcome>>
\* what the tokenizer and the first call of the converter never touch
restVars == <<second, titles, validTitles, item, content, imageAsset, successCount,
              failureCount, sent, events, mainPc,
              maxRetries, attempt, delay, lastError, retryLog, retryPc, retryOutcome>>
vars     == <<text, i, currentText, isBold, isItalic, segments, tokPc, tokResult,
              markdown, cleanedMarkdown, paragraphs, blocks, document, pc,
              second, titles, validTitles, item, content, imageAsset, successCount,
              failureCount, sent, events, mainPc,
              maxRetries, attempt, delay, lastError, retryLog, retryPc, retryOutcome>>

\* JavaScript's null, a value of its own that compares with any object
Null == [_type |-> "null"]

\* no second call of the converter is in progress
SecondIdle ==
    second = [markdown |-> <<>>, cleanedMarkdown |-> <<>>, paragraphs |-> <<>>,
              blocks |-> <<>>, document |-> <<>>, pc |-> "idle"]

\* main() is not running
MainIdle ==
    /\ titles = <<>>
    /\ validTitles = <<>>
    /\ item = 1
    /\ content = Null
    /\ imageAsset = Null
    /\ successCount = 0
    /\ failureCount = 0
    /\ sent = <<>>
    /\ events = <<>>
    /\ mainPc = "idle"

\* JavaScript's undefined, a value of its own that compares with any object
Undefined == [_type |-> "undefined"]

\* fetchWithRetry() is not running
RetryIdle ==
    /\ maxRetries = 0
    /\ attempt = 1
    /\ delay = 0
    /\ lastError = Undefined
    /\ retryLog = <<>>
    /\ retryPc = "idle"
    /\ retryOutcome = Undefined

RestIdle == SecondIdle /\ MainIdle /\ RetryIdle

----------------------------------------------------------------------------
(* Bounds of the model *)

\* longest text handed to the tokenizer specification
MaxTextLen == 8
\* most lines an input of the converter specification is made of
MaxLines == 2
\* longest text between the markers of a bold-wrapped pseudo-heading
MaxHeadingLen == 2
\* longest run of newlines between two paragraphs
MaxGap == 4
\* most items titles.json holds
MaxTitles == 2
\* largest maxRetries fetchWithRetry is called with
MaxRetries == 3

----------------------------------------------------------------------------
(* Strings *)

STAR == "*"
NL   == "\n"
SP   == " "

\* the characters JavaScript's \s and trim() treat as white space that the
\* model's inputs can contain
WhiteSpace == {SP, NL}

Digits == {"0", "1", "2", "3", "4", "5", "6", "7", "8", "9"}

\* F applied to the value v: the value is bound as the element of a set, so
\* that it is computed once, however often F uses it
Bind(v, F(_)) == CHOOSE r \in {F(x) : x \in {v}} : TRUE

\* s.substring(from-1, to) with 1-based inclusive positions
Slice(s, from, to) == IF to < from THEN <<>> ELSE SubSeq(s, from, to)

\* s.substring(from-1)
From(s, from) == Slice(s, from, Len(s))

\* s.startsWith(p)
StartsWith(s, p) == Len(s) >= Len(p) /\ SubSeq(s, 1, Len(p)) = p

\* s.startsWith(p, at-1)
StartsWithAt(s, p, at) ==
    at + Len(p) - 1 <= Len(s) /\ Slice(s, at, at + Len(p) - 1) = p

RECURSIVE Concat(_)
\* join of a sequence of strings
Concat(ss) == IF ss = <<>> THEN <<>> ELSE Head(ss) \o Concat(Tail(ss))

RECURSIVE LeadingWs(_, _)
\* number of white-space characters of s from position at on
LeadingWs(s, at) ==
    IF at <= Len(s) /\ s[at] \in WhiteSpace THEN 1 + LeadingWs(s, at + 1) ELSE 0

RECURSIVE TrailingWs(_, _)
\* number of white-space characters of s up to position at, backwards
TrailingWs(s, at) ==
    IF at >= 1 /\ s[at] \in WhiteSpace THEN 1 + TrailingWs(s, at - 1) ELSE 0

\* s.trimStart() in place of s.trim()
TrimStart(s) == From(s, LeadingWs(s, 1) + 1)

\* s.trim()
Trim(s) ==
    Bind(s, LAMBDA str :
        LET l == LeadingWs(str, 1)
        IN  IF l = Len(str) THEN <<>>
            ELSE Slice(str, l + 1, Len(str) - TrailingWs(str, Len(str))))

----------------------------------------------------------------------------
(* processBoldAndEmphasis *)

\* MarksOf without the italic part
MarksOfBoldOnly(b, it) == IF b THEN <<"strong">> ELSE <<>>

\* marks: [...(isBold ? ['strong'] : []), ...(isItalic ? ['em'] : [])]
MarksOf(b, it) ==
    (IF b THEN <<"strong">> ELSE <<>>) \o (IF it THEN <<"em">> ELSE <<>>)

\* the span pushed at a flush
Span(t, b, it) == [_type |-> "span", text |-> t, marks |-> MarksOf(b, it)]

\* the span returned when no span was pushed; it has no marks field
EmptySpan == [_type |-> "span", text |-> <<>>]

\* the marks of a span, a missing field read as no marks
Marks(s) == IF "marks" \in DOMAIN s THEN s.marks ELSE <<>>

\* the local variables of one call
TokStart(t) ==
    [text |-> t, i |-> 1, currentText |-> <<>>,
     isBold |-> FALSE, isItalic |-> FALSE, segments |-> <<>>]

\* Flush without the test of currentText
FlushAlways(st) == Append(st.segments, Span(st.currentText, st.isBold, st.isItalic))

\* if (currentText) segments.push(...)
Flush(st) ==
    IF st.currentText # <<>>
    THEN Append(st.segments, Span(st.currentText, st.isBold, st.isItalic))
    ELSE st.segments

\* i < text.length - 1 && text[i] === '*' && text[i+1] === '*'
IsBoldMarker(st) ==
    /\ st.i < Len(st.text)
    /\ st.text[st.i] = STAR
    /\ st.text[st.i + 1] = STAR

\* the italic test without the look at the character before
IsItalicMarkerNoLookBehind(st) ==
    /\ st.text[st.i] = STAR
    /\ (IF st.i = Len(st.text) THEN TRUE ELSE st.text[st.i + 1] # STAR)

\* text[i] === '*' && (i === 0 || text[i-1] !== '*')
\*                 && (i === text.length - 1 || text[i+1] !== '*')
IsItalicMarker(st) ==
    /\ st.text[st.i] = STAR
    /\ (IF st.i = 1 THEN TRUE ELSE st.text[st.i - 1] # STAR)
    /\ (IF st.i = Len(st.text) THEN TRUE ELSE st.text[st.i + 1] # STAR)

\* HandleBold without `currentText = ''`: the flushed text stays in the buffer
HandleBoldKeepsText(st) ==
    [st EXCEPT !.segments = Flush(st), !.isBold = ~st.isBold, !.i = st.i + 2]

\* HandleBold without `isBold = !isBold`
HandleBoldNoToggle(st) ==
    [st EXCEPT !.segments = Flush(st), !.currentText = <<>>, !.i = st.i + 2]

\* HandleBold without `i++`: the second asterisk is scanned again
HandleBoldNoSkip(st) ==
    [st EXCEPT !.segments = Flush(st), !.currentText = <<>>,
               !.isBold = ~st.isBold, !.i = st.i + 1]

\* the bold branch: flush, toggle, skip the second asterisk
HandleBold(st) ==
    [st EXCEPT !.segments = Flush(st), !.currentText = <<>>,
               !.isBold = ~st.isBold, !.i = st.i + 2]

\* HandleItalic that also closes an open bold
HandleItalicClosesBold(st) ==
    [st EXCEPT !.segments = Flush(st), !.currentText = <<>>,
               !.isItalic = ~st.isItalic, !.isBold = FALSE, !.i = st.i + 1]

\* the italic branch: flush, toggle
HandleItalic(st) ==
    [st EXCEPT !.segments = Flush(st), !.currentText = <<>>,
               !.isItalic = ~st.isItalic, !.i = st.i + 1]

\* currentText += text[i]
AddChar(st) ==
    [st EXCEPT !.currentText = Append(st.currentText, st.text[st.i]),
               !.i = st.i + 1]

\* one iteration of the for loop
LoopBody(st) ==
    IF IsBoldMarker(st) THEN HandleBold(st)
    ELSE IF IsItalicMarker(st) THEN HandleItalic(st)
    ELSE AddChar(st)

RECURSIVE RunLoop(_)
\* the for loop, from the state st to its exit
RunLoop(st) ==
    IF st.i > Len(st.text) THEN st
    ELSE Bind(LoopBody(st), LAMBDA next : RunLoop(next))

\* ReturnSegments without the placeholder: return segments
ReturnSegmentsBare(st) == Flush(st)

\* the code after the loop: last flush, then the placeholder when nothing was pushed
ReturnSegments(st) ==
    LET segs == Flush(st)
    IN  IF Len(segs) > 0 THEN segs ELSE <<EmptySpan>>

processBoldAndEmphasis(t) ==
    Bind(TokStart(t), LAMBDA st : Bind(RunLoop(st), LAMBDA exit : ReturnSegments(exit)))

----------------------------------------------------------------------------
(* The tokenizer as a state machine: one action per branch of the loop *)

\* characters of the texts the tokenizer specification scans
TokChars == {STAR, "a", "b"}

RECURSIVE SeqsUpTo(_, _)
\* all sequences over S of length at most n
SeqsUpTo(S, n) ==
    IF n = 0 THEN {<<>>}
    ELSE LET shorter == SeqsUpTo(S, n - 1)
         IN  shorter \cup {Append(s, c) : s \in {x \in shorter : Len(x) = n - 1}, c \in S}

TokTexts == SeqsUpTo(TokChars, MaxTextLen)

TokState ==
    [text |-> text, i |-> i, currentText |-> currentText,
     isBold |-> isBold, isItalic |-> isItalic, segments |-> segments]

SetTok(st) ==
    /\ text' = st.text
    /\ i' = st.i
    /\ currentText' = st.currentText
    /\ isBold' = st.isBold
    /\ isItalic' = st.isItalic
    /\ segments' = st.segments

ConvIdle ==
    /\ markdown = <<>>
    /\ cleanedMarkdown = <<>>
    /\ paragraphs = <<>>
    /\ blocks = <<>>
    /\ document = <<>>
    /\ pc = "idle"

TokInit ==
    /\ text \in TokTexts
    /\ i = 1
    /\ currentText = <<>>
    /\ isBold = FALSE
    /\ isItalic = FALSE
    /\ segments = <<>>
    /\ tokPc = "loop"
    /\ tokResult = <<>>
    /\ ConvIdle
    /\ RestIdle

TokBold ==
    /\ tokPc = "loop"
    /\ i <= Len(text)
    /\ IsBoldMarker(TokState)
    /\ SetTok(HandleBold(TokState))
    /\ UNCHANGED <<tokPc, tokResult>>
    /\ UNCHANGED convVars
    /\ UNCHANGED restVars

TokItalic ==
    /\ tokPc = "loop"
    /\ i <= Len(text)
    /\ ~IsBoldMarker(TokState)
    /\ IsItalicMarker(TokState)
    /\ SetTok(HandleItalic(TokState))
    /\ UNCHANGED <<tokPc, tokResult>>
    /\ UNCHANGED convVars
    /\ UNCHANGED restVars

TokChar ==
    /\ tokPc = "loop"
    /\ i <= Len(text)
    /\ ~IsBoldMarker(TokState)
    /\ ~IsItalicMarker(TokState)
    /\ SetTok(AddChar(TokState))
    /\ UNCHANGED <<tokPc, tokResult>>
    /\ UNCHANGED convVars
    /\ UNCHANGED restVars

TokReturn ==
    /\ tokPc = "loop"
    /\ i > Len(text)
    /\ tokResult' = ReturnSegments(TokState)
    /\ tokPc' = "done"
    /\ UNCHANGED <<text, i, currentText, isBold, isItalic, segments>>
    /\ UNCHANGED convVars
    /\ UNCHANGED restVars

TokNext == TokBold \/ TokItalic \/ TokChar \/ TokReturn

SpecTok == TokInit /\ [][TokNext]_vars

----------------------------------------------------------------------------
(* generateKey *)

\* const chars = 'abc...XYZ0123456789'
chars ==
    <<"a","b","c","d","e","f","g","h","i","j","k","l","m",
      "n","o","p","q","r","s","t","u","v","w","x","y","z",
      "A","B","C","D","E","F","G","H","I","J","K","L","M",
      "N","O","P","Q","R","S","T","U","V","W","X","Y","Z",
      "0","1","2","3","4","5","6","7","8","9">>

\* length: number = 12
DefaultKeyLength == 12

\* chars.charAt(Math.floor(Math.random() * chars.length)), r the floored product
CharAt(r) == chars[r + 1]

\* the key built from the values rnd[1], rnd[2], ... that Math.random() yields
\* in the loop's iterations
generateKey(length, rnd) == [j \in 1..length |-> CharAt(rnd[j])]

\* Math.floor(Math.random() * chars.length) ranges over 0..61.  The model
\* draws from the runs of Math.random() that yield the same index, one of
\* RandomIndices, in every iteration of the loop: every key built from them
\* is a key the code can build, and two calls can draw the same run.
RandomIndices == {0, 1}

RandomRuns == {[j \in 1..DefaultKeyLength |-> r] : r \in RandomIndices}

\* the keys one call of generateKey() can return in the model
Keys == {generateKey(DefaultKeyLength, rnd) : rnd \in RandomRuns}

----------------------------------------------------------------------------
(* markdownToPortableText: preprocessing *)

HeadingDigits == {"1", "2", "3", "4", "5", "6"}

\* the pattern with the digits of the classification rules: \*\*H([2-4]):
BoldHeadingAtRuleDigits(s, p) ==
    /\ p + 4 <= Len(s)
    /\ s[p] = STAR /\ s[p + 1] = STAR
    /\ s[p + 2] = "H"
    /\ s[p + 3] \in {"2", "3", "4"}
    /\ s[p + 4] = ":"

\* \*\*H([1-6]): matches at position p
BoldHeadingAt(s, p) ==
    /\ p + 4 <= Len(s)
    /\ s[p] = STAR /\ s[p + 1] = STAR
    /\ s[p + 2] = "H"
    /\ s[p + 3] \in HeadingDigits
    /\ s[p + 4] = ":"

RECURSIVE ClosingAt(_, _)
\* (.*?)\*\* from position e: the position of the first ** that only
\* characters other than a newline separate from e, 0 when there is none
ClosingAt(s, e) ==
    IF e + 1 > Len(s) THEN 0
    ELSE IF s[e] = STAR /\ s[e + 1] = STAR THEN e
    ELSE IF s[e] = NL THEN 0
    ELSE ClosingAt(s, e + 1)

RECURSIVE ReplaceBoldHeadings(_, _)
\* .replace(/\*\*H([1-6]):(.*?)\*\*/g, (_, level, content) => `\n\nH${level}:${content}\n\n`)
\* from position p on
ReplaceBoldHeadings(s, p) ==
    IF p > Len(s) THEN <<>>
    ELSE LET e == IF BoldHeadingAt(s, p) THEN ClosingAt(s, p + 5) ELSE 0
         IN  IF e # 0
             THEN <<NL, NL, "H", s[p + 3], ":">> \o Slice(s, p + 5, e - 1) \o <<NL, NL>>
                  \o ReplaceBoldHeadings(s, e + 2)
             ELSE <<s[p]>> \o ReplaceBoldHeadings(s, p + 1)

RECURSIVE NewlineRun(_, _)
\* length of the run of newlines of s that starts at p
NewlineRun(s, p) == IF p <= Len(s) /\ s[p] = NL THEN 1 + NewlineRun(s, p + 1) ELSE 0

RECURSIVE CollapseNewlines(_, _)
\* .replace(/\n{3,}/g, '\n\n') from position p on
CollapseNewlines(s, p) ==
    IF p > Len(s) THEN <<>>
    ELSE LET r == NewlineRun(s, p)
         IN  IF r >= 3 THEN <<NL, NL>> \o CollapseNewlines(s, p + r)
             ELSE <<s[p]>> \o CollapseNewlines(s, p + 1)

\* Clean without the second replace
CleanNoCollapse(md) == ReplaceBoldHeadings(md, 1)

\* const cleanedMarkdown = markdown.replace(...).replace(...)
Clean(md) == Bind(ReplaceBoldHeadings(md, 1), LAMBDA replaced : CollapseNewlines(replaced, 1))

RECURSIVE SplitFrom(_, _, _, _)
\* s.split(sep) from position p on, cur the piece under construction
SplitFrom(s, sep, p, cur) ==
    IF p > Len(s) THEN <<cur>>
    ELSE IF StartsWithAt(s, sep, p)
         THEN <<cur>> \o SplitFrom(s, sep, p + Len(sep), <<>>)
         ELSE SplitFrom(s, sep, p + 1, Append(cur, s[p]))

\* s.split(sep)
Split(s, sep) == SplitFrom(s, sep, 1, <<>>)

\* .filter((p) => p.trim())
FilterNonBlank(ps) == SelectSeq(ps, LAMBDA p : Trim(p) # <<>>)

----------------------------------------------------------------------------
(* markdownToPortableText: the rules of the map callback *)

RECURSIVE IndexOf(_, _, _)
\* s.indexOf(pat, p-1) + 1: the first position from p on where pat occurs, 0 if none
IndexOf(s, pat, p) ==
    IF p + Len(pat) - 1 > Len(s) THEN 0
    ELSE IF StartsWithAt(s, pat, p) THEN p
    ELSE IndexOf(s, pat, p + 1)

\* s.replace(pat, rep) with a string pattern: the first occurrence only
ReplaceFirst(s, pat, rep) ==
    LET k == IndexOf(s, pat, 1)
    IN  IF k = 0 THEN s ELSE Slice(s, 1, k - 1) \o rep \o From(s, k + Len(pat))

\* paragraph.match(/^H<d>:/i)
MatchesH(s, d) ==
    /\ Len(s) >= 3
    /\ s[1] \in {"H", "h"}
    /\ s[2] = d
    /\ s[3] = ":"

\* StripH that leaves the prefix in place
StripHKeepsPrefix(s, d) == s

\* paragraph.replace(/^H<d>:/i, '')
StripH(s, d) == IF MatchesH(s, d) THEN From(s, 4) ELSE s

\* paragraph.replace(/^>|^&gt;/g, '')
StripQuote(s) ==
    IF StartsWith(s, <<">">>) THEN From(s, 2)
    ELSE IF StartsWith(s, <<"&", "g", "t", ";">>) THEN From(s, 5)
    ELSE s

\* /^[\s]*[-*]\s/.test(s)
BulletTest(s) ==
    LET l == LeadingWs(s, 1)
    IN  /\ l + 2 <= Len(s)
        /\ s[l + 1] \in {"-", STAR}
        /\ s[l + 2] \in WhiteSpace

\* item.replace(/^[\s]*[-*]\s+/, '')
StripBullet(s) ==
    IF BulletTest(s)
    THEN LET l == LeadingWs(s, 1) IN From(s, l + 2 + LeadingWs(s, l + 2))
    ELSE s

RECURSIVE DigitRun(_, _)
\* length of the run of digits of s that starts at p
DigitRun(s, p) == IF p <= Len(s) /\ s[p] \in Digits THEN 1 + DigitRun(s, p + 1) ELSE 0

\* /^[\s]*\d+\.\s/.test(s)
NumberTest(s) ==
    LET l == LeadingWs(s, 1)
        d == DigitRun(s, l + 1)
    IN  /\ d >= 1
        /\ l + d + 2 <= Len(s)
        /\ s[l + d + 1] = "."
        /\ s[l + d + 2] \in WhiteSpace

\* item.replace(/^[\s]*\d+\.\s+/, '')
StripNumber(s) ==
    IF NumberTest(s)
    THEN LET l == LeadingWs(s, 1)
             d == DigitRun(s, l + 1)
         IN  From(s, l + d + 2 + LeadingWs(s, l + d + 2))
    ELSE s

H1Marker == <<"#", SP>>
H2Marker == <<"#", "#", SP>>
H3Marker == <<"#", "#", "#", SP>>
H4Marker == <<"#", "#", "#", "#", SP>>
QuoteMarker == <<">", SP>>
EscapedQuoteMarker == <<"&", "g", "t", ";", SP>>

\* the chain without its final else: a unit that matches no rule takes no branch
RuleNoFallback(p) ==
    IF StartsWith(p, H1Marker) THEN "h1"
    ELSE IF StartsWith(p, H2Marker) \/ MatchesH(p, "2") THEN "h2"
    ELSE IF StartsWith(p, H3Marker) \/ MatchesH(p, "3") THEN "h3"
    ELSE IF StartsWith(p, H4Marker) \/ MatchesH(p, "4") THEN "h4"
    ELSE IF StartsWith(p, QuoteMarker) \/ StartsWith(p, EscapedQuoteMarker) THEN "blockquote"
    ELSE IF BulletTest(p) THEN "bullet"
    ELSE IF NumberTest(p) THEN "number"
    ELSE "none"

\* the branch of the if / else-if chain a paragraph takes
Rule(p) ==
    IF StartsWith(p, H1Marker) THEN "h1"
    ELSE IF StartsWith(p, H2Marker) \/ MatchesH(p, "2") THEN "h2"
    ELSE IF StartsWith(p, H3Marker) \/ MatchesH(p, "3") THEN "h3"
    ELSE IF StartsWith(p, H4Marker) \/ MatchesH(p, "4") THEN "h4"
    ELSE IF StartsWith(p, QuoteMarker) \/ StartsWith(p, EscapedQuoteMarker) THEN "blockquote"
    ELSE IF BulletTest(p) THEN "bullet"
    ELSE IF NumberTest(p) THEN "number"
    ELSE "normal"

\* Block that also carries the level of a list item
BlockWithLevel(key, style, children) ==
    [_type |-> "block", _key |-> key, style |-> style, level |-> 1, children |-> children]

\* { _type: 'block', _key, style, children }
Block(key, style, children) ==
    [_type |-> "block", _key |-> key, style |-> style, children |-> children]

\* { _type: 'block', _key, style: 'normal', listItem, level: 1, children }
ListBlock(key, listItem, children) ==
    [_type |-> "block", _key |-> key, style |-> "normal",
     listItem |-> listItem, level |-> 1, children |-> children]

\* HeadingText that strips the marker and an `H<d>:` after it
HeadingTextStripsBoth(p, marker, d) == StripH(ReplaceFirst(p, marker, <<>>), d)

\* the text of a '#'-or-'H<d>:' heading of level d in 2..4, before the trim
HeadingText(p, marker, d) ==
    IF StartsWith(p, marker) THEN ReplaceFirst(p, marker, <<>>) ELSE StripH(p, d)

\* BulletItems without the filter
BulletItemsUnfiltered(p) == Split(p, <<NL>>)

\* paragraph.split('\n').filter((line) => /^[\s]*[-*]\s/.test(line))
BulletItems(p) == SelectSeq(Split(p, <<NL>>), BulletTest)

\* paragraph.split('\n').filter((line) => /^[\s]*\d+\.\s/.test(line))
NumberItems(p) == SelectSeq(Split(p, <<NL>>), NumberTest)

\* how many times the callback calls generateKey() for the paragraph p
KeysNeeded(p) ==
    IF Rule(p) = "bullet" THEN Len(BulletItems(p))
    ELSE IF Rule(p) = "number" THEN Len(NumberItems(p))
    ELSE 1

\* the block of a heading of level 2 to 4: const text = ...; then text.trim()
HeadingBlock(p, key, style, marker, d) ==
    Bind(HeadingText(p, marker, d),
         LAMBDA headingText : Block(key, style, processBoldAndEmphasis(Trim(headingText))))

\* listItems.map((item) => ({ ..., children: processBoldAndEmphasis(item.replace(...)) }))
BulletBlocks(listItems, keys) ==
    [n \in 1..Len(listItems) |->
        ListBlock(keys[n], "bullet", processBoldAndEmphasis(StripBullet(listItems[n])))]

NumberBlocks(listItems, keys) ==
    [n \in 1..Len(listItems) |->
        ListBlock(keys[n], "number", processBoldAndEmphasis(StripNumber(listItems[n])))]

\* The value the map callback returns for the paragraph p, keys[n] being the
\* n-th key generateKey() returns during the call.  A branch that returns one
\* block is modelled as returning a one-element list: blocks.flat() yields
\* the same Document for both.
MapParagraph(p, keys) ==
    Bind(Rule(p), LAMBDA r :
        IF r = "h1" THEN
            <<Block(keys[1], "h1", processBoldAndEmphasis(ReplaceFirst(p, H1Marker, <<>>)))>>
        ELSE IF r = "h2" THEN <<HeadingBlock(p, keys[1], "h2", H2Marker, "2")>>
        ELSE IF r = "h3" THEN <<HeadingBlock(p, keys[1], "h3", H3Marker, "3")>>
        ELSE IF r = "h4" THEN <<HeadingBlock(p, keys[1], "h4", H4Marker, "4")>>
        ELSE IF r = "blockquote" THEN
            <<Block(keys[1], "blockquote", processBoldAndEmphasis(Trim(StripQuote(p))))>>
        ELSE IF r = "bullet" THEN
            Bind(BulletItems(p), LAMBDA listItems : BulletBlocks(listItems, keys))
        ELSE IF r = "number" THEN
            Bind(NumberItems(p), LAMBDA listItems : NumberBlocks(listItems, keys))
        ELSE
            <<Block(keys[1], "normal", processBoldAndEmphasis(p))>>)

\* blocks.flat()
Flat(bs) == Concat(bs)

----------------------------------------------------------------------------
(* The converter as a state machine *)

\* the lines the inputs are made of
Lines ==
    { <<>>,
      <<"a", STAR, "b">>,
      <<"-">>,
      <<"#", SP, SP, "a">>,
      <<"#", "#", SP, "a", SP>>,
      <<"#", "#", "#", SP, STAR, STAR, STAR, "a", STAR, STAR, "b">>,
      <<"#", "#", "#", "#", SP, "a">>,
      <<"#", "#", SP, "H", "2", ":", "a">>,
      <<"h", "3", ":", SP, "a">>,
      <<">", SP, STAR, STAR>>,
      <<"&", "g", "t", ";", SP, "a", STAR>>,
      <<"-", SP, "a">>,
      <<SP, STAR, SP, SP, "b">>,
      <<"1", ".", SP, "a">>,
      <<"1", "2", ".", SP, STAR, "b", STAR>>,
      <<STAR, STAR, "H", "2", ":", "a", STAR, STAR>>,
      <<"a", STAR, STAR, "H", "5", ":", "b", STAR, STAR, "c">> }

\* what joins two lines of an input
Separators == { <<NL>>, <<NL, NL>> }

RECURSIVE InputsOf(_)
\* the inputs of exactly n lines
InputsOf(n) ==
    IF n = 1 THEN Lines
    ELSE {x \o sep \o l : x \in InputsOf(n - 1), sep \in Separators, l \in Lines}

Inputs == UNION {InputsOf(n) : n \in 1..MaxLines}

TokIdle ==
    /\ text = <<>>
    /\ i = 1
    /\ currentText = <<>>
    /\ isBold = FALSE
    /\ isItalic = FALSE
    /\ segments = <<>>
    /\ tokPc = "idle"
    /\ tokResult = <<>>

ConvInit ==
    /\ markdown \in Inputs
    /\ cleanedMarkdown = <<>>
    /\ paragraphs = <<>>
    /\ blocks = <<>>
    /\ document = <<>>
    /\ pc = "clean"
    /\ TokIdle
    /\ RestIdle

\* const cleanedMarkdown = markdown.replace(...).replace(...)
CleanMarkdown ==
    /\ pc = "clean"
    /\ cleanedMarkdown' = Clean(markdown)
    /\ pc' = "split"
    /\ UNCHANGED <<markdown, paragraphs, blocks, document>>
    /\ UNCHANGED tokVars
    /\ UNCHANGED restVars

\* const paragraphs = cleanedMarkdown.split('\n\n')
SplitParagraphs ==
    /\ pc = "split"
    /\ paragraphs' = Split(cleanedMarkdown, <<NL, NL>>)
    /\ pc' = "map"
    /\ UNCHANGED <<markdown, cleanedMarkdown, blocks, document>>
    /\ UNCHANGED tokVars
    /\ UNCHANGED restVars

\* the paragraphs .filter() passes on to .map()
Units == FilterNonBlank(paragraphs)

\* the callback of .map() runs on the next unit, which takes the branch rule
MapUnit(rule) ==
    /\ Len(blocks) < Len(Units)
    /\ \E paragraph \in {Units[Len(blocks) + 1]} :
           /\ Rule(paragraph) = rule
           /\ \E keys \in [1..KeysNeeded(paragraph) -> Keys] :
                  blocks' = Append(blocks, MapParagraph(paragraph, keys))
    /\ UNCHANGED <<markdown, cleanedMarkdown, paragraphs, document, pc>>
    /\ UNCHANGED tokVars
    /\ UNCHANGED restVars

MapHeading1   == pc = "map" /\ MapUnit("h1")
MapHeading2   == pc = "map" /\ MapUnit("h2")
MapHeading3   == pc = "map" /\ MapUnit("h3")
MapHeading4   == pc = "map" /\ MapUnit("h4")
MapBlockquote == pc = "map" /\ MapUnit("blockquote")
MapBulletList == pc = "map" /\ MapUnit("bullet")
MapNumberList == pc = "map" /\ MapUnit("number")
MapNormal     == pc = "map" /\ MapUnit("normal")

\* return blocks.flat()
ReturnDocument ==
    /\ pc = "map"
    /\ Len(blocks) = Len(Units)
    /\ document' = Flat(blocks)
    /\ pc' = "done"
    /\ UNCHANGED <<markdown, cleanedMarkdown, paragraphs, blocks>>
    /\ UNCHANGED tokVars
    /\ UNCHANGED restVars

Next ==
    \/ CleanMarkdown
    \/ SplitParagraphs
    \/ MapHeading1
    \/ MapHeading2
    \/ MapHeading3
    \/ MapHeading4
    \/ MapBlockquote
    \/ MapBulletList
    \/ MapNumberList
    \/ MapNormal
    \/ ReturnDocument

Spec == ConvInit /\ [][Next]_vars

\* The call is synchronous code that runs to its return statement: a step
\* that can be taken is taken.
FairSpec == Spec /\ WF_vars(Next)

----------------------------------------------------------------------------
(* The converter on the inputs the preprocessing is about *)

\* the Document the call returns for md when every generateKey() returns
\* the key drawn from the run rnd of Math.random()
markdownToPortableText(md, rnd) ==
    Bind(FilterNonBlank(Split(Clean(md), <<NL, NL>>)), LAMBDA units :
        Flat([j \in 1..Len(units) |->
                MapParagraph(units[j],
                    [n \in 1..KeysNeeded(units[j]) |-> generateKey(DefaultKeyLength, rnd)])]))

\* the texts between `**H<d>:` and `**`
HeadingTexts == SeqsUpTo({"a", SP, STAR}, MaxHeadingLen)

\* what precedes and follows a pseudo-heading in the input
Befores ==
    { <<>>, <<"a">>, <<"#", SP, "a">>, <<">", SP, "a">>,
      <<"-", SP, "a">>, <<"1", ".", SP, "a">> }

Afters == { <<>>, <<"b">>, <<SP>> }

\* x**H<d>:t**y
HeadingInputs ==
    {x \o <<STAR, STAR, "H", d, ":">> \o t \o <<STAR, STAR>> \o y :
        x \in Befores, d \in HeadingDigits, t \in HeadingTexts, y \in Afters}

\* paragraphs without a newline
GapParagraphs == { <<>>, <<SP>>, <<"a">>, <<"-", SP, "a", STAR>>, <<"#", SP, "a">> }

\* a run of k newlines
Newlines(k) == [n \in 1..k |-> NL]

\* two paragraphs with two or more newlines between them
GapInputs ==
    {a \o Newlines(k) \o b : a \in GapParagraphs, k \in 2..MaxGap, b \in GapParagraphs}

PreInputs == HeadingInputs \cup GapInputs \cup GapParagraphs

PreInit ==
    /\ markdown \in PreInputs
    /\ cleanedMarkdown = <<>>
    /\ paragraphs = <<>>
    /\ blocks = <<>>
    /\ document = <<>>
    /\ pc = "clean"
    /\ TokIdle
    /\ RestIdle

SpecPre == PreInit /\ [][Next]_vars

----------------------------------------------------------------------------
(* Two calls of the converter in progress at once *)

\* The first call runs on the variables markdown .. pc, the second one on the
\* fields of second.  The code is synchronous, so that a call runs from entry
\* to return without another one in between; the model lets the two calls
\* alternate after every statement, which covers that and more.

\* the inputs of the two calls
TwoInputs ==
    { <<"#", SP, SP, "a">>,
      <<"#", "#", SP, "a", SP>>,
      <<"#", "#", "#", SP, STAR, STAR, STAR, "a", STAR, STAR, "b">>,
      <<"#", "#", "#", "#", SP, "a">>,
      <<">", SP, STAR, STAR>>,
      <<"-", SP, "a", NL, SP, STAR, SP, SP, "b">>,
      <<"1", ".", SP, "a">>,
      <<"a", STAR, "b", NL, NL, STAR, STAR, "H", "2", ":", "a", STAR, STAR>> }

TwoInit ==
    /\ markdown \in TwoInputs
    /\ cleanedMarkdown = <<>>
    /\ paragraphs = <<>>
    /\ blocks = <<>>
    /\ document = <<>>
    /\ pc = "clean"
    /\ second \in {[markdown |-> md, cleanedMarkdown |-> <<>>, paragraphs |-> <<>>,
                     blocks |-> <<>>, document |-> <<>>, pc |-> "clean"] : md \in TwoInputs}
    /\ TokIdle
    /\ MainIdle
    /\ RetryIdle

\* the second call reads the first call's cleanedMarkdown, as if the
\* constant were declared outside the function
SharedSource == cleanedMarkdown

\* the string the second call splits: its own const cleanedMarkdown
SecondSource == second.cleanedMarkdown

\* const cleanedMarkdown = markdown.replace(...).replace(...), second call
SecondClean ==
    /\ second.pc = "clean"
    /\ second' = [second EXCEPT !.cleanedMarkdown = Clean(second.markdown), !.pc = "split"]
    /\ UNCHANGED <<tokVars, convVars, mainVars, retryVars>>

\* const paragraphs = cleanedMarkdown.split('\n\n'), second call
SecondSplit ==
    /\ second.pc = "split"
    /\ second' = [second EXCEPT !.paragraphs = Split(SecondSource, <<NL, NL>>), !.pc = "map"]
    /\ UNCHANGED <<tokVars, convVars, mainVars, retryVars>>

\* the paragraphs .filter() passes on to .map(), second call
SecondUnits == FilterNonBlank(second.paragraphs)

\* the callback of .map() runs on the next unit, second call
SecondMap ==
    /\ second.pc = "map"
    /\ Len(second.blocks) < Len(SecondUnits)
    /\ \E paragraph \in {SecondUnits[Len(second.blocks) + 1]} :
           \E keys \in [1..KeysNeeded(paragraph) -> Keys] :
               second' = [second EXCEPT
                             !.blocks = Append(second.blocks, MapParagraph(paragraph, keys))]
    /\ UNCHANGED <<tokVars, convVars, mainVars, retryVars>>

\* return blocks.flat(), second call
SecondReturn ==
    /\ second.pc = "map"
    /\ Len(second.blocks) = Len(SecondUnits)
    /\ second' = [second EXCEPT !.document = Flat(second.blocks), !.pc = "done"]
    /\ UNCHANGED <<tokVars, convVars, mainVars, retryVars>>

TwoNext ==
    \/ Next
    \/ SecondClean
    \/ SecondSplit
    \/ SecondMap
    \/ SecondReturn

SpecTwo == TwoInit /\ [][TwoNext]_vars

----------------------------------------------------------------------------
(* main: the batch loop over the titles *)

\* The calls main() awaits are made to services outside the program: the
\* model draws their outcome without constraint.  events records every call
\* with its outcome, sent every document posted to the content store.

\* items with a title and a categoryId, both strings
ValidItems == { [title |-> "t1", categoryId |-> "c1"], [title |-> "t2", categoryId |-> "c2"] }

\* an item without categoryId
InvalidItems == { [title |-> "t3"] }

\* the arrays titles.json can hold
TitleLists == SeqsUpTo(ValidItems \cup InvalidItems, MaxTitles)

\* item && typeof item.title === 'string' && typeof item.categoryId === 'string'
IsValidItem(it) == "title" \in DOMAIN it /\ "categoryId" \in DOMAIN it

\* imageAsset || undefined
OrUndefined(v) == IF v = Null THEN Undefined ELSE v

\* the content generateBlogContent() resolves to for a title
BlogContent(title) ==
    [seoTitle |-> title, metaDescription |-> title, body |-> <<"#", SP, "a">>,
     keywords |-> <<>>]

\* the asset uploadImageToSanity() resolves to for a title
ImageAsset(title) ==
    [_type |-> "image", asset |-> [_type |-> "reference", _ref |-> title],
     alt |-> title, caption |-> title]

\* const doc = { _type: 'post', title, ..., ...(mainImage ? { mainImage } : {}) }
PostDocument(title, categoryId, mainImage) ==
    IF mainImage # Undefined
    THEN [_type |-> "post", title |-> title, categories |-> <<categoryId>>,
          mainImage |-> mainImage]
    ELSE [_type |-> "post", title |-> title, categories |-> <<categoryId>>]

\* the document publishToSanity() builds in the current iteration
CurrentDocument ==
    PostDocument(validTitles[item].title, validTitles[item].categoryId,
                 OrUndefined(imageAsset))

\* the record of a call made in the current iteration
Event(step, outcome) ==
    [item |-> item, title |-> validTitles[item].title, step |-> step, outcome |-> outcome]

MainInit ==
    /\ titles \in TitleLists
    /\ validTitles = <<>>
    /\ item = 1
    /\ content = Null
    /\ imageAsset = Null
    /\ successCount = 0
    /\ failureCount = 0
    /\ sent = <<>>
    /\ events = <<>>
    /\ mainPc = "validate"
    /\ TokIdle
    /\ ConvIdle
    /\ SecondIdle
    /\ RetryIdle

\* no titles, or no valid one: process.exit(1)
ExitWithoutTitles ==
    /\ mainPc = "validate"
    /\ SelectSeq(titles, IsValidItem) = <<>>
    /\ mainPc' = "exit"
    /\ UNCHANGED <<titles, validTitles, item, content, imageAsset, successCount,
                   failureCount, sent, events>>
    /\ UNCHANGED <<tokVars, convVars, second, retryVars>>

\* const validTitles = titles.filter(...); the counters start at 0
StartLoop ==
    /\ mainPc = "validate"
    /\ SelectSeq(titles, IsValidItem) # <<>>
    /\ validTitles' = SelectSeq(titles, IsValidItem)
    /\ successCount' = 0
    /\ failureCount' = 0
    /\ mainPc' = "content"
    /\ UNCHANGED <<titles, item, content, imageAsset, sent, events>>
    /\ UNCHANGED <<tokVars, convVars, second, retryVars>>

\* the catch block that ends the whole batch
CatchAborts ==
    /\ failureCount' = failureCount + 1
    /\ mainPc' = "done"
    /\ content' = Null
    /\ imageAsset' = Null
    /\ UNCHANGED <<titles, validTitles, item, successCount>>
    /\ UNCHANGED <<tokVars, convVars, second, retryVars>>

\* the catch block: failureCount++, then on to the next item
Catch ==
    /\ failureCount' = failureCount + 1
    /\ item' = item + 1
    /\ mainPc' = "content"
    /\ content' = Null
    /\ imageAsset' = Null
    /\ UNCHANGED <<titles, validTitles, successCount>>
    /\ UNCHANGED <<tokVars, convVars, second, retryVars>>

\* const content = await generateBlogContent(item.title), and the logging
ContentGenerated ==
    /\ mainPc = "content"
    /\ item <= Len(validTitles)
    /\ content' = BlogContent(validTitles[item].title)
    /\ events' = Append(events, Event("content", "returned"))
    /\ mainPc' = "image"
    /\ UNCHANGED <<titles, validTitles, item, imageAsset, successCount, failureCount, sent>>
    /\ UNCHANGED <<tokVars, convVars, second, retryVars>>

\* generateBlogContent() resolves to an object without seoTitle, and
\* content.seoTitle.length throws
ContentMalformed ==
    /\ mainPc = "content"
    /\ item <= Len(validTitles)
    /\ events' = Append(events, Event("content", "malformed"))
    /\ sent' = sent
    /\ Catch

\* generateBlogContent() rejects
ContentFailed ==
    /\ mainPc = "content"
    /\ item <= Len(validTitles)
    /\ events' = Append(events, Event("content", "threw"))
    /\ sent' = sent
    /\ Catch

\* generateAndUploadImage(): generateImage() and uploadImageToSanity() succeed
ImageUploaded ==
    /\ mainPc = "image"
    /\ imageAsset' = ImageAsset(validTitles[item].title)
    /\ events' = Append(events, Event("image", "asset"))
    /\ mainPc' = "publish"
    /\ UNCHANGED <<titles, validTitles, item, content, successCount, failureCount, sent>>
    /\ UNCHANGED <<tokVars, convVars, second, retryVars>>

\* the image step raises into the catch block of main()
ImageFailureRaises ==
    /\ mainPc = "image"
    /\ events' = Append(events, Event("image", "threw"))
    /\ sent' = sent
    /\ Catch

\* generateAndUploadImage(): generateImage() throws, the catch returns null
ImageGenerationFailed ==
    /\ mainPc = "image"
    /\ imageAsset' = Null
    /\ events' = Append(events, Event("image", "generation failed"))
    /\ mainPc' = "publish"
    /\ UNCHANGED <<titles, validTitles, item, content, successCount, failureCount, sent>>
    /\ UNCHANGED <<tokVars, convVars, second, retryVars>>

\* generateAndUploadImage(): uploadImageToSanity() returns null
ImageUploadFailed ==
    /\ mainPc = "image"
    /\ imageAsset' = Null
    /\ events' = Append(events, Event("image", "upload failed"))
    /\ mainPc' = "publish"
    /\ UNCHANGED <<titles, validTitles, item, content, successCount, failureCount, sent>>
    /\ UNCHANGED <<tokVars, convVars, second, retryVars>>

\* publishToSanity() throws before the document is posted
PublishThrew ==
    /\ mainPc = "publish"
    /\ events' = Append(events, Event("publish", "threw"))
    /\ sent' = sent
    /\ Catch

\* publishToSanity() posts the document and throws on the response
PublishRejected ==
    /\ mainPc = "publish"
    /\ sent' = Append(sent, CurrentDocument)
    /\ events' = Append(events, Event("publish", "rejected"))
    /\ Catch

\* publishToSanity() posts the document and returns; successCount++
PublishSucceeded ==
    /\ mainPc = "publish"
    /\ sent' = Append(sent, CurrentDocument)
    /\ events' = Append(events, Event("publish", "published"))
    /\ successCount' = successCount + 1
    /\ item' = item + 1
    /\ mainPc' = "content"
    /\ content' = Null
    /\ imageAsset' = Null
    /\ UNCHANGED <<titles, validTitles, failureCount>>
    /\ UNCHANGED <<tokVars, convVars, second, retryVars>>

\* the loop is over: the final statistics are printed
PrintStatistics ==
    /\ mainPc = "content"
    /\ item > Len(validTitles)
    /\ mainPc' = "done"
    /\ UNCHANGED <<titles, validTitles, item, content, imageAsset, successCount,
                   failureCount, sent, events>>
    /\ UNCHANGED <<tokVars, convVars, second, retryVars>>

MainNext ==
    \/ ExitWithoutTitles
    \/ StartLoop
    \/ ContentGenerated
    \/ ContentMalformed
    \/ ContentFailed
    \/ ImageUploaded
    \/ ImageGenerationFailed
    \/ ImageUploadFailed
    \/ PublishThrew
    \/ PublishRejected
    \/ PublishSucceeded
    \/ PrintStatistics

SpecMain == MainInit /\ [][MainNext]_vars

----------------------------------------------------------------------------
(* fetchWithRetry: one call *)

\* fn is the request to the completion service: the model draws its outcome
\* without constraint.  retryLog records every call of fn with its outcome
\* and every sleep with its length, in the order they happen.

\* maxRetries: number = 3
DefaultMaxRetries == 3

\* delay: number = 2000
DefaultDelay == 2000

\* the errors fn rejects with
Errors ==
    { [message |-> "OpenAI API responded with status 502"],
      [message |-> "OpenAI API responded with status 429"],
      [message |-> "Missing message content from OpenAI"] }

\* the values fn resolves to: two answers of the service
Results == { BlogContent("t1"), BlogContent("t2") }

\* delay *= 1.5 (exact as long as delay is even)
Backoff(d) == (d * 3) \div 2

\* the record of a call of fn
Call(outcome, value) ==
    [kind |-> "call", attempt |-> attempt, outcome |-> outcome, value |-> value]

\* the record of a sleep
Sleep(ms) == [kind |-> "sleep", ms |-> ms]

\* fetchWithRetry(fn) as generateBlogContent() calls it, and with smaller
\* values of maxRetries
RetryInit ==
    /\ maxRetries \in 1..MaxRetries
    /\ attempt = 1
    /\ delay = DefaultDelay
    /\ lastError = Undefined
    /\ retryLog = <<>>
    /\ retryPc = "loop"
    /\ retryOutcome = Undefined
    /\ TokIdle
    /\ ConvIdle
    /\ SecondIdle
    /\ MainIdle

\* return await fn(): fn resolves
AttemptSucceeds ==
    /\ retryPc = "loop"
    /\ attempt <= maxRetries
    /\ \E value \in Results :
          /\ retryLog' = Append(retryLog, Call("resolved", value))
          /\ retryOutcome' = [kind |-> "returned", value |-> value]
    /\ retryPc' = "done"
    /\ UNCHANGED <<maxRetries, attempt, delay, lastError>>
    /\ UNCHANGED <<tokVars, convVars, second, mainVars>>

\* the catch that leaves the error of an earlier attempt in lastError
AttemptFailsKeepsFirstError ==
    /\ retryPc = "loop"
    /\ attempt <= maxRetries
    /\ \E err \in Errors :
          /\ retryLog' = Append(retryLog, Call("rejected", err))
          /\ lastError' = IF lastError = Undefined THEN err ELSE lastError
    /\ retryPc' = "sleep"
    /\ UNCHANGED <<maxRetries, attempt, delay, retryOutcome>>
    /\ UNCHANGED <<tokVars, convVars, second, mainVars>>

\* the catch that does not sleep after the last attempt
AttemptFailsNoFinalSleep ==
    /\ retryPc = "loop"
    /\ attempt <= maxRetries
    /\ \E err \in Errors :
          /\ retryLog' = Append(retryLog, Call("rejected", err))
          /\ lastError' = err
    /\ IF attempt = maxRetries
       THEN attempt' = attempt + 1 /\ retryPc' = "loop"
       ELSE attempt' = attempt /\ retryPc' = "sleep"
    /\ UNCHANGED <<maxRetries, delay, retryOutcome>>
    /\ UNCHANGED <<tokVars, convVars, second, mainVars>>

\* fn rejects: lastError = err, and the timer is set
AttemptFails ==
    /\ retryPc = "loop"
    /\ attempt <= maxRetries
    /\ \E err \in Errors :
          /\ retryLog' = Append(retryLog, Call("rejected", err))
          /\ lastError' = err
    /\ retryPc' = "sleep"
    /\ UNCHANGED <<maxRetries, attempt, delay, retryOutcome>>
    /\ UNCHANGED <<tokVars, convVars, second, mainVars>>

\* the timer fires: delay *= 1.5; attempt++
SleepElapsed ==
    /\ retryPc = "sleep"
    /\ retryLog' = Append(retryLog, Sleep(delay))
    /\ delay' = Backoff(delay)
    /\ attempt' = attempt + 1
    /\ retryPc' = "loop"
    /\ UNCHANGED <<maxRetries, lastError, retryOutcome>>
    /\ UNCHANGED <<tokVars, convVars, second, mainVars>>

\* the loop is over: throw lastError
ThrowLastError ==
    /\ retryPc = "loop"
    /\ attempt > maxRetries
    /\ retryOutcome' = [kind |-> "threw", error |-> lastError]
    /\ retryPc' = "done"
    /\ UNCHANGED <<maxRetries, attempt, delay, lastError, retryLog>>
    /\ UNCHANGED <<tokVars, convVars, second, mainVars>>

RetryNext == AttemptSucceeds \/ AttemptFails \/ SleepElapsed \/ ThrowLastError

SpecRetry == RetryInit /\ [][RetryNext]_vars

----------------------------------------------------------------------------
(* Vocabulary of the properties, stated without the operators of the model *)

\* the concatenated text of a span sequence
SpanText(children) == Concat([n \in 1..Len(children) |-> children[n].text])

\* the marks of a span as a set
MarkSet(s) == {Marks(s)[n] : n \in 1..Len(Marks(s))}

RECURSIVE Pick(_, _, _)
\* the characters of s, from position k on, whose position is in keep
Pick(s, keep, k) ==
    IF k > Len(s) THEN <<>>
    ELSE (IF k \in keep THEN <<s[k]>> ELSE <<>>) \o Pick(s, keep, k + 1)

\* the positions of s that hold no white space
InkPositions(s) == {k \in 1..Len(s) : s[k] \notin WhiteSpace}

\* s without the white space at its two ends
Trimmed(s) ==
    LET ink == InkPositions(s)
    IN  IF ink = {} THEN <<>>
        ELSE LET first == CHOOSE k \in ink : \A m \in ink : k <= m
                 last  == CHOOSE k \in ink : \A m \in ink : k >= m
             IN  [n \in 1..(last - first + 1) |-> s[first + n - 1]]

\* the positions of the maximal run of asterisks of t that contains position k
StarRun(t, k) ==
    {m \in 1..Len(t) : \A n \in 1..Len(t) : (m <= n /\ n <= k) \/ (k <= n /\ n <= m) => t[n] = STAR}

\* the asterisk at position k is copied to the output: it is the last one
\* of a run of an odd number, three or more, of asterisks
LeftOverStar(t, k) ==
    LET run == StarRun(t, k)
    IN  /\ t[k] = STAR
        /\ Cardinality(run) >= 3
        /\ Cardinality(run) % 2 = 1
        /\ \A m \in run : m <= k

\* t without the emphasis markers the tokenizer consumes
WithoutEmphasis(t) ==
    Pick(t, {k \in 1..Len(t) : t[k] # STAR \/ LeftOverStar(t, k)}, 1)

\* t without any asterisk
WithoutStars(t) == Pick(t, {k \in 1..Len(t) : t[k] # STAR}, 1)

\* the line starts with a list marker made of some white space, one of the
\* characters of markers (or, for digits, a run of them and a dot), and a
\* white-space character; the position of that last character, 0 if none
ListMarkerEnd(line, numbered) ==
    LET ends == {e \in 2..Len(line) :
                    /\ line[e] \in WhiteSpace
                    /\ \E l \in 0..(e - 2) :
                          /\ \A k \in 1..l : line[k] \in WhiteSpace
                          /\ IF numbered
                             THEN /\ line[e - 1] = "."
                                  /\ l + 1 <= e - 2
                                  /\ \A k \in (l + 1)..(e - 2) : line[k] \in Digits
                             ELSE /\ l = e - 2
                                  /\ line[e - 1] \in {"-", STAR}}
    IN  IF ends = {} THEN 0 ELSE CHOOSE e \in ends : \A m \in ends : e <= m

\* the lines of a paragraph unit
LinesOf(u) ==
    LET breaks == {k \in 1..Len(u) : u[k] = NL}
        starts == {1} \cup {k + 1 : k \in breaks}
        EndOf(b) == CHOOSE e \in (breaks \cup {Len(u) + 1}) :
                        e >= b /\ \A m \in breaks : m >= b => e <= m
        RECURSIVE From1(_)
        From1(b) == IF b > Len(u) + 1 THEN <<>>
                    ELSE <<Slice(u, b, EndOf(b) - 1)>> \o From1(EndOf(b) + 1)
    IN  From1(1)

\* s without its first n characters
DropFirst(s, n) == IF n >= Len(s) THEN <<>> ELSE [k \in 1..(Len(s) - n) |-> s[k + n]]

\* s without its leading white space
WithoutLeadingWs(s) ==
    LET ink == InkPositions(s)
    IN  IF ink = {} THEN <<>>
        ELSE DropFirst(s, (CHOOSE k \in ink : \A m \in ink : k <= m) - 1)

\* the lines of the unit u that start with a list marker of the given kind
ListLines(u, numbered) ==
    SelectSeq(LinesOf(u), LAMBDA line : ListMarkerEnd(line, numbered) # 0)

\* the blocks mapped from one unit are list items
IsListItem(b) == "listItem" \in DOMAIN b

\* number of characters of the structural marker a non-list unit of the
\* given style starts with
MarkerLength(u, style) ==
    IF style = "h1" THEN 2
    ELSE IF style = "h2" THEN 3
    ELSE IF style = "h3" THEN (IF u[1] = "#" THEN 4 ELSE 3)
    ELSE IF style = "h4" THEN (IF u[1] = "#" THEN 5 ELSE 3)
    ELSE IF style = "blockquote" THEN (IF u[1] = ">" THEN 2 ELSE 5)
    ELSE 0

\* the text of a block as the claims C2 and C7 state it: the source with
\* its structural marker removed and nothing else
TextAfterMarker(u, b) ==
    IF IsListItem(b) THEN DropFirst(u, ListMarkerEnd(u, b.listItem = "number"))
    ELSE DropFirst(u, MarkerLength(u, b.style))

\* the text the code hands to the tokenizer: headings 2 to 4 and block quotes
\* are trimmed, a list item loses all the white space after its marker
Payload(u, b) ==
    IF IsListItem(b) THEN WithoutLeadingWs(TextAfterMarker(u, b))
    ELSE IF b.style \in {"h2", "h3", "h4", "blockquote"} THEN Trimmed(TextAfterMarker(u, b))
    ELSE TextAfterMarker(u, b)

\* the source of the n-th block mapped from the j-th unit: the unit, or the
\* n-th of its lines that start with the list marker
SourceOf(j, n) ==
    LET b == blocks[j][n]
    IN  IF IsListItem(b) THEN ListLines(Units[j], b.listItem = "number")[n] ELSE Units[j]

\* the pairs (j, n) of the blocks mapped so far for which the source exists
MappedBlocks ==
    {jn \in UNION {{<<j, n>> : n \in 1..Len(blocks[j])} : j \in 1..Len(blocks)} :
        IsListItem(blocks[jn[1]][jn[2]]) =>
            jn[2] <= Len(ListLines(Units[jn[1]], blocks[jn[1]][jn[2]].listItem = "number"))}

----------------------------------------------------------------------------
(* C1 *)

\* C1: every paragraph unit that is not blank contributes at least one Block
\* to the Document: no unit is lost entirely.
C1_EveryUnitYieldsABlock ==
    \A j \in 1..Len(blocks) : Len(blocks[j]) >= 1

----------------------------------------------------------------------------
(* C2 *)

\* C2, as claimed: the concatenated span text of every Block equals its
\* source (unit or list line) with the structural marker and every asterisk
\* of an emphasis marker removed, all other characters preserved.
C2_SpanTextAsClaimed ==
    \A jn \in MappedBlocks :
        SpanText(blocks[jn[1]][jn[2]].children)
            = WithoutStars(TextAfterMarker(SourceOf(jn[1], jn[2]), blocks[jn[1]][jn[2]]))

\* C2, amended: the concatenated span text of every Block equals the text
\* handed to the tokenizer (the source without its structural marker, trimmed
\* for headings 2 to 4 and block quotes, without the white space that follows
\* a list marker) with the consumed emphasis markers removed, every other
\* character preserved verbatim and in order.
C2_SpanTextIsPayload ==
    \A jn \in MappedBlocks :
        SpanText(blocks[jn[1]][jn[2]].children)
            = WithoutEmphasis(Payload(SourceOf(jn[1], jn[2]), blocks[jn[1]][jn[2]]))

\* a heading 2 whose unit ends in a space has been mapped, and a heading 3
\* with a bold part and a left-over asterisk as well
C2_Witness ==
    /\ pc = "done"
    /\ \E j \in 1..Len(blocks) :
          /\ Units[j] = <<"#", "#", SP, "a", SP>>
          /\ SpanText(blocks[j][1].children) = <<"a">>
    /\ \E j \in 1..Len(blocks) :
          /\ Units[j] = <<"#", "#", "#", SP, STAR, STAR, STAR, "a", STAR, STAR, "b">>
          /\ SpanText(blocks[j][1].children) = <<STAR, "a", "b">>

----------------------------------------------------------------------------
(* C3 *)

\* no two consecutive spans of the sequence have the same marks set
AdjacentMarksDiffer(spans) ==
    \A n \in 1..(Len(spans) - 1) : MarkSet(spans[n]) # MarkSet(spans[n + 1])

\* t has a run of four or more asterisks
HasLongStarRun(t) == \E k \in 1..Len(t) : t[k] = STAR /\ Cardinality(StarRun(t, k)) >= 4

\* C3, as claimed: in the span sequence the tokenizer returns for any text, no
\* two consecutive Spans have the same marks set.
C3_AdjacentMarksDifferAlways ==
    tokPc = "done" => AdjacentMarksDiffer(tokResult)

\* C3, amended: in the span sequence the tokenizer returns for a text without
\* a run of four or more asterisks, no two consecutive Spans have the same
\* marks set (in such a run two bold toggles cancel out with no text between).
C3_AdjacentMarksDiffer ==
    (tokPc = "done" /\ ~HasLongStarRun(text)) => AdjacentMarksDiffer(tokResult)

\* a text with both kinds of marker has been scanned into four spans
C3_Witness ==
    /\ tokPc = "done"
    /\ ~HasLongStarRun(text)
    /\ Len(tokResult) >= 4
    /\ \E n \in 1..Len(tokResult) : MarkSet(tokResult[n]) = {"strong", "em"}

----------------------------------------------------------------------------
(* C4 *)

\* C4: every Block of the Document has at least one child span, and a block
\* whose text yields no span has exactly one span, with empty text.
C4_ChildrenNotEmpty ==
    \A jn \in MappedBlocks :
        LET b == blocks[jn[1]][jn[2]]
        IN  /\ Len(b.children) >= 1
            /\ WithoutEmphasis(Payload(SourceOf(jn[1], jn[2]), b)) = <<>>
                  => (Len(b.children) = 1 /\ b.children[1].text = <<>>)
            /\ pc = "done" => \E n \in 1..Len(document) : document[n] = b

\* a Document holds a block whose only span is the one with empty text
C4_Witness ==
    /\ pc = "done"
    /\ \E n \in 1..Len(document) :
          /\ Len(document[n].children) = 1
          /\ document[n].children[1].text = <<>>

----------------------------------------------------------------------------
(* C6 *)

\* C6: within one Document, the identifiers of any two distinct Blocks are
\* different.
C6_KeysDistinct ==
    pc = "done" =>
        \A m, n \in 1..Len(document) : m # n => document[m]._key # document[n]._key

----------------------------------------------------------------------------
(* C7 *)

\* the unit starts with one of the four hash heading markers
HashHeading(u) ==
    \/ StartsWith(u, H1Marker) \/ StartsWith(u, H2Marker)
    \/ StartsWith(u, H3Marker) \/ StartsWith(u, H4Marker)

\* the number of characters of the hash marker the unit starts with
HashMarkerLength(u) == CHOOSE k \in 2..5 : u[k] = SP /\ \A m \in 1..(k - 1) : u[m] = "#"

\* the units mapped so far that start with a hash heading marker
HashUnits == {j \in 1..Len(blocks) : HashHeading(Units[j])}

\* C7, as claimed: the concatenated span text of the heading Block is the
\* unit's text after the hash marker, and it has no leading # and no leading
\* space.
C7_HeadingTextAsClaimed ==
    \A j \in HashUnits :
        LET t == SpanText(blocks[j][1].children)
        IN  /\ t = DropFirst(Units[j], HashMarkerLength(Units[j]))
            /\ t # <<>> => t[1] \notin {"#", SP}

\* C7, amended: the concatenated span text of the heading Block is the unit's
\* text after the hash marker, trimmed of surrounding white space for ##, ###
\* and #### (not for #), with the consumed emphasis markers removed; it starts
\* with # or a space only when that text starts with #, a space or an
\* asterisk.
C7_HeadingText ==
    \A j \in HashUnits :
        LET u     == Units[j]
            k     == HashMarkerLength(u)
            after == IF k = 2 THEN DropFirst(u, k) ELSE Trimmed(DropFirst(u, k))
            t     == SpanText(blocks[j][1].children)
        IN  /\ Len(blocks[j]) = 1
            /\ blocks[j][1].style = <<"h1", "h2", "h3", "h4">>[k - 1]
            /\ t = WithoutEmphasis(after)
            /\ (t # <<>> /\ t[1] \in {"#", SP}) => after[1] \in {"#", SP, STAR}

\* a ## heading whose unit ends in a space and a # heading whose text starts
\* with a space have been mapped
C7_Witness ==
    /\ \E j \in HashUnits :
          /\ Units[j] = <<"#", "#", SP, "a", SP>>
          /\ SpanText(blocks[j][1].children) = <<"a">>
    /\ \E j \in HashUnits :
          /\ Units[j] = <<"#", SP, SP, "a">>
          /\ SpanText(blocks[j][1].children) = <<SP, "a">>

----------------------------------------------------------------------------
(* C5 *)

\* C5: for every input string, convert terminates and returns a Document
\* (the flattened blocks of all its units) without raising an error.
C5_Terminates ==
    <>(pc = "done" /\ Len(blocks) = Len(Units) /\ document = Concat(blocks))

\* the call on an input with an unmatched asterisk has returned
C5_Witness ==
    /\ pc = "done"
    /\ markdown = <<"a", STAR, "b">>
    /\ Len(document) = 1

----------------------------------------------------------------------------
(* C8 *)

\* the number of blocks the units before the j-th one were mapped to
RECURSIVE BlocksBefore(_)
BlocksBefore(j) == IF j <= 1 THEN 0 ELSE BlocksBefore(j - 1) + Len(blocks[j - 1])

\* the kinds of list, by whether the marker is numbered
ListKind(numbered) == IF numbered THEN "number" ELSE "bullet"

\* C8: a unit handled as a bullet (numbered) list yields exactly one Block per
\* line that matches the list pattern, in line order and at the unit's
\* position in the Document, each a list item of that kind with level 1 and
\* its marker stripped; a line that does not match yields no Block, so a unit
\* whose lines all match yields one Block per line.
C8_ListExpansion ==
    \A j \in 1..Len(blocks) : \A numbered \in BOOLEAN :
        LET u     == Units[j]
            items == ListLines(u, numbered)
        IN  ListMarkerEnd(u, numbered) # 0 =>
              /\ Len(blocks[j]) = Len(items)
              /\ (\A n \in 1..Len(LinesOf(u)) : ListMarkerEnd(LinesOf(u)[n], numbered) # 0)
                    => Len(blocks[j]) = Len(LinesOf(u))
              /\ \A n \in 1..Len(blocks[j]) :
                    LET b == blocks[j][n]
                    IN  /\ n <= Len(items)
                        /\ b._type = "block"
                        /\ b.style = "normal"
                        /\ IsListItem(b)
                        /\ b.listItem = ListKind(numbered)
                        /\ b.level = 1
                        /\ b.children = processBoldAndEmphasis(Payload(items[n], b))
                        /\ pc = "done" => document[BlocksBefore(j) + n] = b

\* a bullet list of two different lines has been mapped to two blocks, and
\* the Document holds them in line order
C8_Witness ==
    /\ pc = "done"
    /\ Units = << <<"-", SP, "a", NL, SP, STAR, SP, SP, "b">> >>
    /\ Len(document) = 2
    /\ SpanText(document[1].children) = <<"a">>
    /\ SpanText(document[2].children) = <<"b">>

----------------------------------------------------------------------------
(* C9 *)

\* t has no asterisk between the positions from and to
StarFree(t, from, to) == \A k \in from..to : t[k] # STAR

\* t is x d y d z for the delimiter d (one or two asterisks) at the positions
\* p and q, with x, y, z not empty and free of asterisks
Delimited(t, d, p, q) ==
    /\ 1 < p /\ p + Len(d) < q /\ q + Len(d) <= Len(t)
    /\ StartsWithAt(t, d, p) /\ StartsWithAt(t, d, q)
    /\ StarFree(t, 1, p - 1)
    /\ StarFree(t, p + Len(d), q - 1)
    /\ StarFree(t, q + Len(d), Len(t))

\* the three spans claimed for x d y d z
ThreeSpans(t, d, p, q, mark) ==
    << [_type |-> "span", text |-> SubSeq(t, 1, p - 1), marks |-> <<>>],
       [_type |-> "span", text |-> SubSeq(t, p + Len(d), q - 1), marks |-> <<mark>>],
       [_type |-> "span", text |-> SubSeq(t, q + Len(d), Len(t)), marks |-> <<>>] >>

\* C9: for non-empty texts x, y, z without asterisks, the tokenizer returns
\* for x**y**z exactly the spans (x, no marks), (y, bold), (z, no marks), and
\* for x*y*z the same with the italic mark.
C9_ThreeSpans ==
    tokPc = "done" =>
        \A p, q \in 1..Len(text) :
            /\ Delimited(text, <<STAR, STAR>>, p, q)
                  => tokResult = ThreeSpans(text, <<STAR, STAR>>, p, q, "strong")
            /\ Delimited(text, <<STAR>>, p, q)
                  => tokResult = ThreeSpans(text, <<STAR>>, p, q, "em")

\* the scan of ab**b**a has returned
C9_Witness ==
    /\ tokPc = "done"
    /\ text = <<"a", "b", STAR, STAR, "b", STAR, STAR, "a">>
    /\ Len(tokResult) = 3

----------------------------------------------------------------------------
(* C10 *)

\* t has no ** at or after position k
NoPairFrom(t, k) == \A m \in k..(Len(t) - 1) : ~(t[m] = STAR /\ t[m + 1] = STAR)

\* t has, at or after position k, no asterisk without an asterisk next to it
NoLoneStarFrom(t, k) ==
    \A m \in k..Len(t) :
        ~(/\ t[m] = STAR
          /\ (m > 1 => t[m - 1] # STAR)
          /\ (m < Len(t) => t[m + 1] # STAR))

\* the spans with text that the step emits: those it pushes, and at the
\* return those of the result that were not pushed before
EmittedSpans ==
    IF tokPc' = "done"
    THEN {tokResult'[n] : n \in {m \in (Len(segments) + 1)..Len(tokResult') : tokResult'[m].text # <<>>}}
    ELSE {segments'[n] : n \in (Len(segments) + 1)..Len(segments')}

\* t is the delimiter d followed by a non-empty text without asterisks
OpensOnly(t, d) ==
    /\ Len(t) > Len(d)
    /\ StartsWith(t, d)
    /\ StarFree(t, Len(d) + 1, Len(t))

\* C10: once bold (italic) is open and no later ** (lone *) follows, the flag
\* stays set and every Span emitted up to the end of the text carries bold
\* (italic); **t, with t non-empty and free of asterisks, yields exactly the
\* Span (t, bold), and *t the Span (t, italic).
C10_OpenMarkerStays ==
    /\ [][tokPc = "loop" =>
            /\ (isBold /\ NoPairFrom(text, i))
                  => (isBold' /\ \A sp \in EmittedSpans : "strong" \in MarkSet(sp))
            /\ (isItalic /\ NoLoneStarFrom(text, i))
                  => (isItalic' /\ \A sp \in EmittedSpans : "em" \in MarkSet(sp))]_vars
    /\ [](tokPc = "done" =>
            /\ OpensOnly(text, <<STAR, STAR>>)
                  => tokResult = <<[_type |-> "span", text |-> DropFirst(text, 2),
                                    marks |-> <<"strong">>]>>
            /\ OpensOnly(text, <<STAR>>)
                  => tokResult = <<[_type |-> "span", text |-> DropFirst(text, 1),
                                    marks |-> <<"em">>]>>)

\* the scan of a**b*ab, whose bold is never closed, has returned three spans,
\* the last two of them bold
C10_Witness ==
    /\ tokPc = "done"
    /\ text = <<"a", STAR, STAR, "b", STAR, "a", "b">>
    /\ Len(tokResult) = 3
    /\ "strong" \in MarkSet(tokResult[2])
    /\ MarkSet(tokResult[3]) = {"strong", "em"}

----------------------------------------------------------------------------
(* C11 *)

\* the style of the heading of level d
HeadingStyle(d) == IF d = "2" THEN "h2" ELSE IF d = "3" THEN "h3" ELSE "h4"

\* md has `**H<d>:` at position p and ends the pseudo-heading with the `**`
\* at position e
WrappedHeadingAt(md, d, p, e) ==
    /\ 1 <= p /\ p + 5 <= e /\ e + 1 <= Len(md)
    /\ Slice(md, p, p + 4) = <<STAR, STAR, "H", d, ":">>
    /\ Slice(md, e, e + 1) = <<STAR, STAR>>

\* s has neither an asterisk nor a newline
Plain(s) == \A k \in 1..Len(s) : s[k] \notin {STAR, NL}

\* s has some character that is not white space
HasInk(s) == InkPositions(s) # {}

\* s has no two consecutive asterisks
NoPair(s) == \A k \in 1..(Len(s) - 1) : ~(s[k] = STAR /\ s[k + 1] = STAR)

\* b is the heading of level d with the text t, trimmed, and without marks
IsPlainHeading(b, d, t) ==
    /\ b._type = "block"
    /\ b.style = HeadingStyle(d)
    /\ ~IsListItem(b)
    /\ SpanText(b.children) = Trimmed(t)
    /\ \A n \in 1..Len(b.children) : MarkSet(b.children[n]) = {}

\* C11, as claimed: an input that consists of `**H<d>:<text>**`, d in 2..4,
\* for any text, is converted to exactly one heading Block of level d whose
\* span text is the text, trimmed, without marks.
C11_PseudoHeadingAsClaimed ==
    pc = "done" =>
        \A d \in {"2", "3", "4"} :
            WrappedHeadingAt(markdown, d, 1, Len(markdown) - 1) =>
                /\ Len(document) = 1
                /\ IsPlainHeading(document[1], d, Slice(markdown, 6, Len(markdown) - 2))

\* C11, amended: for a text without asterisk and newline, the input
\* `**H<d>:<text>**`, d in 2..4, is converted to exactly one heading Block of
\* level d whose span text is the text, trimmed, without marks and without the
\* `H<d>:` prefix; embedded in x**H<d>:<text>**y, x without `**` and x and y
\* not blank, the pseudo-heading is a paragraph unit of its own, mapped to
\* that one heading Block, with a unit before it and a unit after it.
C11_PseudoHeading ==
    \A d \in {"2", "3", "4"} : \A p, e \in 1..Len(markdown) :
        (/\ pc \in {"map", "done"}
         /\ WrappedHeadingAt(markdown, d, p, e)
         /\ Plain(Slice(markdown, p + 5, e - 1))
         /\ NoPair(Slice(markdown, 1, p - 1))) =>
            LET t == Slice(markdown, p + 5, e - 1)
                x == Slice(markdown, 1, p - 1)
                y == From(markdown, e + 2)
                heading == <<"H", d, ":">> \o t
            IN  /\ (x = <<>> /\ y = <<>>) =>
                      /\ Units = <<heading>>
                      /\ pc = "done" =>
                            /\ Len(document) = 1
                            /\ IsPlainHeading(document[1], d, t)
                /\ (HasInk(x) /\ HasInk(y)) =>
                      \E j \in 2..(Len(Units) - 1) :
                          /\ Units[j] = heading
                          /\ \A m \in 1..(j - 1) : HasInk(Units[m])
                          /\ Len(blocks) >= j =>
                                /\ Len(blocks[j]) = 1
                                /\ IsPlainHeading(blocks[j][1], d, t)

\* `a**H2: a**b` has become three blocks, the heading 2 with the trimmed text
\* a in the middle
C11_Witness ==
    /\ pc = "done"
    /\ markdown = <<"a", STAR, STAR, "H", "2", ":", SP, "a", STAR, STAR, "b">>
    /\ Len(document) = 3
    /\ document[2].style = "h2"
    /\ SpanText(document[2].children) = <<"a">>
    /\ SpanText(document[3].children) = <<"b">>

----------------------------------------------------------------------------
(* C12 *)

\* a Document without the identifiers of its blocks
WithoutKeys(doc) ==
    [n \in 1..Len(doc) |-> [f \in (DOMAIN doc[n]) \ {"_key"} |-> doc[n][f]]]

\* the newlines of md are the k >= 2 consecutive ones from position p on
IsGap(md, p, k) ==
    /\ k >= 2
    /\ p + k - 1 <= Len(md)
    /\ \A n \in 1..Len(md) : md[n] = NL <=> (p <= n /\ n <= p + k - 1)

\* s has a run of three or more newlines
HasLongNewlineRun(s) ==
    \E n \in 1..(Len(s) - 2) : s[n] = NL /\ s[n + 1] = NL /\ s[n + 2] = NL

\* C12: for paragraphs A and B without newline and every k >= 2, the Document
\* returned for A + k newlines + B is, identifiers aside, the Document
\* returned for A + 2 newlines + B; the cleaned string never has a run of 3
\* or more newlines.
C12_GapCollapse ==
    /\ ~HasLongNewlineRun(cleanedMarkdown)
    /\ pc = "done" =>
          \A p, k \in 1..Len(markdown) :
              IsGap(markdown, p, k) =>
                  WithoutKeys(document)
                      = WithoutKeys(markdownToPortableText(
                            Slice(markdown, 1, p - 1) \o <<NL, NL>> \o From(markdown, p + k),
                            CHOOSE rnd \in RandomRuns : TRUE))

\* the call on `a`, four newlines, `# a` has returned a paragraph and a
\* heading 1
C12_Witness ==
    /\ pc = "done"
    /\ markdown = <<"a", NL, NL, NL, NL, "#", SP, "a">>
    /\ cleanedMarkdown = <<"a", NL, NL, "#", SP, "a">>
    /\ Len(document) = 2
    /\ document[2].style = "h1"

----------------------------------------------------------------------------
(* C14 *)

\* C14: the Document returned has zero Blocks exactly when every paragraph
\* unit of the cleaned input is empty or made of white space only.
C14_EmptyExactlyWhenBlank ==
    pc = "done" =>
        (Len(document) = 0 <=> \A j \in 1..Len(paragraphs) : ~HasInk(paragraphs[j]))

----------------------------------------------------------------------------
(* C15 *)

\* the unit starts with a bullet or a numbered list marker
StartsAsList(u) == ListMarkerEnd(u, FALSE) # 0 \/ ListMarkerEnd(u, TRUE) # 0

\* C15: a Block carries the listItem and level fields if and only if it was
\* produced by the bullet or the numbered list rule; such a Block has style
\* normal and level 1, and every heading, blockquote and normal-paragraph
\* Block has neither field.  Every Block of the Document is one of these.
C15_ListFields ==
    /\ \A j \in 1..Len(blocks) : \A n \in 1..Len(blocks[j]) :
          LET b == blocks[j][n]
          IN  /\ ("listItem" \in DOMAIN b) <=> StartsAsList(Units[j])
              /\ ("level" \in DOMAIN b) <=> StartsAsList(Units[j])
              /\ b.style \in {"h1", "h2", "h3", "h4", "blockquote", "normal"}
              /\ StartsAsList(Units[j]) =>
                    /\ b.style = "normal"
                    /\ b.level = 1
                    /\ b.listItem = (IF ListMarkerEnd(Units[j], TRUE) # 0 THEN "number" ELSE "bullet")
    /\ pc = "done" =>
          \A m \in 1..Len(document) :
              \E j \in 1..Len(blocks) : \E n \in 1..Len(blocks[j]) : document[m] = blocks[j][n]

\* a Document holds a list item with level 1 and a heading 1 without the
\* two fields
C15_Witness ==
    /\ pc = "done"
    /\ \E m, n \in 1..Len(document) :
          /\ DOMAIN document[m] = {"_type", "_key", "style", "listItem", "level", "children"}
          /\ document[m].level = 1
          /\ document[n].style = "h1"
          /\ DOMAIN document[n] = {"_type", "_key", "style", "children"}

----------------------------------------------------------------------------
(* C16 *)

\* the kind of a block: the kind of list item, or the style
KindOf(b) == IF IsListItem(b) THEN b.listItem ELSE b.style

\* u starts with H<d>: or h<d>:
HasPrefixH(u, d) == Len(u) >= 3 /\ u[1] \in {"H", "h"} /\ u[2] = d /\ u[3] = ":"

\* the first line of a unit
FirstLine(u) == LinesOf(u)[1]

\* the kind of the first rule the unit u matches in the fixed order, the
\* list patterns being looked for at the start of listText
KindBy(u, listText) ==
    IF StartsWith(u, <<"#", SP>>) THEN "h1"
    ELSE IF StartsWith(u, <<"#", "#", SP>>) \/ HasPrefixH(u, "2") THEN "h2"
    ELSE IF StartsWith(u, <<"#", "#", "#", SP>>) \/ HasPrefixH(u, "3") THEN "h3"
    ELSE IF StartsWith(u, <<"#", "#", "#", "#", SP>>) \/ HasPrefixH(u, "4") THEN "h4"
    ELSE IF StartsWith(u, <<">", SP>>) \/ StartsWith(u, <<"&", "g", "t", ";", SP>>)
         THEN "blockquote"
    ELSE IF ListMarkerEnd(listText, FALSE) # 0 THEN "bullet"
    ELSE IF ListMarkerEnd(listText, TRUE) # 0 THEN "number"
    ELSE "normal"

\* C16, as claimed: the kind of the Block(s) of every unit is that of the
\* first rule it matches in the fixed order, the list patterns being matched
\* on the unit's first line.
C16_FirstRuleOnFirstLine ==
    \A j \in 1..Len(blocks) : \A n \in 1..Len(blocks[j]) :
        KindOf(blocks[j][n]) = KindBy(Units[j], FirstLine(Units[j]))

\* C16, amended: the kind of the Block(s) of every unit is that of the first
\* rule it matches in the fixed order, the list patterns being matched at the
\* start of the unit, where the white space before the marker and the
\* white-space character after it may be newlines; only the marker of the
\* matching rule is stripped, so `## H2:a` is a heading 2 with the text H2:a.
C16_FirstRule ==
    \A j \in 1..Len(blocks) : \A n \in 1..Len(blocks[j]) :
        LET b == blocks[j][n]
            u == Units[j]
        IN  /\ KindOf(b) = KindBy(u, u)
            /\ ~IsListItem(b) =>
                  /\ Len(blocks[j]) = 1
                  /\ SpanText(b.children) = WithoutEmphasis(Payload(u, b))

\* the unit `## H2:a` has become a heading 2 with the text H2:a
C16_Witness ==
    \E j \in 1..Len(blocks) :
        /\ Units[j] = <<"#", "#", SP, "H", "2", ":", "a">>
        /\ Len(blocks[j]) = 1
        /\ blocks[j][1].style = "h2"
        /\ SpanText(blocks[j][1].children) = <<"H", "2", ":", "a">>

----------------------------------------------------------------------------
(* C17 *)

\* the text `**a *b* c**`
NestedExample == <<STAR, STAR, "a", SP, STAR, "b", STAR, SP, "c", STAR, STAR>>

\* C17: every Span the tokenizer emits has the text of the buffer and exactly
\* the marks of the flags that were set while that text was accumulated (the
\* flags do not change while the buffer holds text, and the flush precedes
\* the toggle): bold iff isBold, italic iff isItalic, no tag twice; so
\* `**a *b* c**` yields (a+space, bold), (b, bold+italic), (space+c, bold).
C17_MarksAreFlags ==
    /\ [][tokPc = "loop" =>
            /\ \A sp \in EmittedSpans :
                  /\ sp.text = currentText
                  /\ "strong" \in MarkSet(sp) <=> isBold
                  /\ "em" \in MarkSet(sp) <=> isItalic
                  /\ MarkSet(sp) \subseteq {"strong", "em"}
                  /\ Len(Marks(sp)) = Cardinality(MarkSet(sp))
            /\ currentText' # <<>> => (isBold' = isBold /\ isItalic' = isItalic)]_vars
    /\ [](processBoldAndEmphasis(NestedExample)
            = << [_type |-> "span", text |-> <<"a", SP>>, marks |-> <<"strong">>],
                 [_type |-> "span", text |-> <<"b">>, marks |-> <<"strong", "em">>],
                 [_type |-> "span", text |-> <<SP, "c">>, marks |-> <<"strong">>] >>)

\* the scan of **a*b*ba has returned a bold span, a bold and italic span and
\* a bold span
C17_Witness ==
    /\ tokPc = "done"
    /\ text = <<STAR, STAR, "a", STAR, "b", STAR, "b", "a">>
    /\ Len(tokResult) = 3
    /\ MarkSet(tokResult[1]) = {"strong"}
    /\ MarkSet(tokResult[2]) = {"strong", "em"}
    /\ tokResult[3].text = <<"b", "a">>
    /\ MarkSet(tokResult[3]) = {"strong"}

----------------------------------------------------------------------------
(* C18 *)

\* C18: a Span with empty text appears in the tokenizer's output only as the
\* placeholder, which is then the only Span and has no marks; the output is
\* the placeholder exactly when the scan flushed no text, that is when the
\* input is empty or made of consumed markers only; in every other output
\* all Spans have text.
C18_EmptyTextOnlyPlaceholder ==
    tokPc = "done" =>
        LET placeholder == Len(tokResult) = 1 /\ tokResult[1].text = <<>>
        IN  /\ (\E n \in 1..Len(tokResult) : tokResult[n].text = <<>>) => placeholder
            /\ placeholder => MarkSet(tokResult[1]) = {}
            /\ placeholder <=> (segments = <<>> /\ currentText = <<>>)
            /\ placeholder <=> WithoutEmphasis(text) = <<>>
            /\ Len(tokResult) >= 1

\* the scan of `***` + `*`, two bold markers and no text, has returned the
\* placeholder
C18_Witness ==
    /\ tokPc = "done"
    /\ text = <<STAR, STAR, STAR, STAR>>
    /\ tokResult = <<[_type |-> "span", text |-> <<>>]>>

----------------------------------------------------------------------------
(* C13 *)

\* the Document a call on md returns when it runs alone, for some keys
Alone(md) == markdownToPortableText(md, CHOOSE rnd \in RandomRuns : TRUE)

\* a step of one call leaves the locals of the other call unchanged
CallsApart ==
    /\ convVars' # convVars => second' = second
    /\ second' # second => convVars' = convVars

\* a call that has returned has returned, identifiers aside, what it returns
\* when it runs alone, and two calls on the same input have returned the same
ResultsAsAlone ==
    /\ pc = "done" => WithoutKeys(document) = WithoutKeys(Alone(markdown))
    /\ second.pc = "done" =>
          WithoutKeys(second.document) = WithoutKeys(Alone(second.markdown))
    /\ (pc = "done" /\ second.pc = "done" /\ markdown = second.markdown) =>
          WithoutKeys(document) = WithoutKeys(second.document)

----------------------------------------------------------------------------
(* C19 *)

\* the calls of one step made so far, in the order they were made
EventsOf(step) == SelectSeq(events, LAMBDA e : e.step = step)

\* the k-th valid title failed: its content generation did not return a
\* usable content, or its publishing threw
FailedTitle(k) ==
    \E n \in 1..Len(events) :
        /\ events[n].item = k
        /\ \/ events[n].step = "content" /\ events[n].outcome # "returned"
           \/ events[n].step = "publish" /\ events[n].outcome # "published"

\* the k-th valid title was published
PublishedTitle(k) ==
    \E n \in 1..Len(events) :
        events[n].item = k /\ events[n].step = "publish" /\ events[n].outcome = "published"

\* C19: the batch loop processes every valid title exactly once, in list
\* order; a failure of content generation or of publishing for a title
\* increments failureCount and skips the remaining steps of that title
\* (publishing is never attempted after a failed content generation), and the
\* loop goes on with the next title; when the loop has ended, successCount +
\* failureCount is the number of valid titles.
C19_BatchLoop ==
    mainPc \in {"content", "image", "publish", "done"} =>
        LET started == EventsOf("content")
            over    == 1..(item - 1)
        IN  /\ validTitles = SelectSeq(titles, IsValidItem)
            /\ Len(started) = (IF mainPc \in {"content", "done"} THEN item - 1 ELSE item)
            /\ \A k \in 1..Len(started) :
                  /\ started[k].item = k
                  /\ started[k].title = validTitles[k].title
                  /\ started[k].outcome # "returned" =>
                        \A n \in 1..Len(events) :
                            events[n].item = k => events[n].step = "content"
            /\ \A k \in over : FailedTitle(k) # PublishedTitle(k)
            /\ failureCount = Cardinality({k \in over : FailedTitle(k)})
            /\ successCount = Cardinality({k \in over : PublishedTitle(k)})
            /\ successCount + failureCount = item - 1
            /\ Len(EventsOf("publish")) <= item
            /\ mainPc = "done" =>
                  /\ Len(started) = Len(validTitles)
                  /\ successCount + failureCount = Len(validTitles)

\* a batch of two valid titles has ended: the content generation of the first
\* failed and the second was published
C19_Witness ==
    /\ mainPc = "done"
    /\ Len(validTitles) = 2
    /\ events[1].step = "content" /\ events[1].outcome = "threw"
    /\ events[2].step = "content" /\ events[2].item = 2
    /\ PublishedTitle(2)
    /\ failureCount = 1
    /\ successCount = 1

----------------------------------------------------------------------------
(* C20 *)

\* the step of generateAndUploadImage() hands main() an asset or null and
\* never an exception: main() goes on to publish the same title
ImageNeverRaises ==
    mainPc = "image" =>
        /\ mainPc' = "publish"
        /\ item' = item
        /\ failureCount' = failureCount
        /\ events'[Len(events')].step = "image"
        /\ IF events'[Len(events')].outcome = "asset"
           THEN imageAsset' = ImageAsset(validTitles[item].title)
           ELSE imageAsset' = Null

\* a document is posted by the publish step only, and it has the field
\* mainImage, holding the asset, exactly when an asset was obtained
MainImageIffAsset ==
    sent' # sent =>
        LET doc == sent'[Len(sent')]
        IN  /\ mainPc = "publish"
            /\ sent' = Append(sent, doc)
            /\ doc.title = validTitles[item].title
            /\ ("mainImage" \in DOMAIN doc) <=> (imageAsset # Null)
            /\ imageAsset # Null => doc.mainImage = imageAsset

\* every call of generateAndUploadImage() is followed by the call of
\* publishToSanity() for the same title
PublishFollowsImage ==
    \A n \in 1..Len(events) :
        events[n].step = "image" =>
            IF n = Len(events)
            THEN mainPc = "publish" /\ item = events[n].item
            ELSE events[n + 1].step = "publish" /\ events[n + 1].item = events[n].item

\* C20: generateAndUploadImage never raises: when the image generation or the
\* upload fails it returns null, and the batch loop still calls
\* publishToSanity for that title, with a document that has no mainImage
\* field; the field is present exactly when an image asset was obtained.
C20_ImageFailureNotFatal ==
    [][ImageNeverRaises]_vars /\ [][MainImageIffAsset]_vars /\ []PublishFollowsImage

\* a title whose image generation failed has been published without mainImage
C20_Witness ==
    /\ mainPc = "done"
    /\ Len(events) = 3
    /\ events[2].step = "image" /\ events[2].outcome = "generation failed"
    /\ events[3].step = "publish" /\ events[3].outcome = "published"
    /\ Len(sent) = 1
    /\ DOMAIN sent[1] = {"_type", "title", "categories"}
    /\ successCount = 1

----------------------------------------------------------------------------
(* C22 *)

\* the text `***x***`
TripleExample == <<STAR, STAR, STAR, "x", STAR, STAR, STAR>>

\* the loop is at an asterisk that follows an asterisk and does not open a
\* `**` pair (the second asterisk of a pair is skipped and never visited)
AtLeftOverStar ==
    /\ tokPc = "loop"
    /\ 1 < i /\ i <= Len(text)
    /\ text[i] = STAR
    /\ text[i - 1] = STAR
    /\ (IF i = Len(text) THEN TRUE ELSE text[i + 1] # STAR)

\* the character is appended to the buffer and nothing else changes
CopiedLiterally ==
    /\ currentText' = Append(currentText, STAR)
    /\ isBold' = isBold
    /\ isItalic' = isItalic
    /\ segments' = segments
    /\ i' = i + 1

\* C22: an asterisk next to another asterisk that is not the first or second
\* character of a `**` pair (the third asterisk of `***`) toggles neither
\* flag and is copied into the buffer as a literal character; so `***x***`
\* yields the Spans (`*x`, bold) and (`*`, no marks), and no bold+italic Span.
C22_LeftOverStarIsLiteral ==
    /\ [][AtLeftOverStar => CopiedLiterally]_vars
    /\ [](processBoldAndEmphasis(TripleExample)
            = << [_type |-> "span", text |-> <<STAR, "x">>, marks |-> <<"strong">>],
                 [_type |-> "span", text |-> <<STAR>>, marks |-> <<>>] >>)

\* the scan of ***a*** has returned (`*a`, bold) and (`*`, no marks)
C22_Witness ==
    /\ tokPc = "done"
    /\ text = <<STAR, STAR, STAR, "a", STAR, STAR, STAR>>
    /\ tokResult = << [_type |-> "span", text |-> <<STAR, "a">>, marks |-> <<"strong">>],
                      [_type |-> "span", text |-> <<STAR>>, marks |-> <<>>] >>

----------------------------------------------------------------------------
(* C23 *)

\* the digits the preprocessor rewrites and no classification rule matches
UnruledDigits == {"1", "5", "6"}

\* the Document is one normal paragraph with the text t and without marks
IsPlainParagraph(doc, t) ==
    /\ Len(doc) = 1
    /\ doc[1]._type = "block"
    /\ doc[1].style = "normal"
    /\ ~IsListItem(doc[1])
    /\ SpanText(doc[1].children) = t
    /\ \A n \in 1..Len(doc[1].children) : MarkSet(doc[1].children[n]) = {}

\* C23, as claimed: an input `**H<d>:<text>**` with d in {1, 5, 6}, for any
\* text, is converted to a single normal paragraph whose text is the literal
\* `H<d>:<text>`, without marks.
C23_UnruledPseudoHeadingAsClaimed ==
    pc = "done" =>
        \A d \in UnruledDigits :
            WrappedHeadingAt(markdown, d, 1, Len(markdown) - 1) =>
                IsPlainParagraph(document,
                    <<"H", d, ":">> \o Slice(markdown, 6, Len(markdown) - 2))

\* C23, amended: for a text without asterisk and newline, the input
\* `**H<d>:<text>**` with d in {1, 5, 6} is rewritten by the preprocessor to
\* the line `H<d>:<text>` between blank lines, which is the only paragraph
\* unit and matches no classification rule: it is converted to a single
\* normal paragraph whose text is the literal `H<d>:<text>`, the white space
\* of the text included, without marks; no heading is produced.
C23_UnruledPseudoHeading ==
    \A d \in UnruledDigits :
        (/\ WrappedHeadingAt(markdown, d, 1, Len(markdown) - 1)
         /\ Plain(Slice(markdown, 6, Len(markdown) - 2))) =>
            LET line == <<"H", d, ":">> \o Slice(markdown, 6, Len(markdown) - 2)
            IN  /\ pc \in {"split", "map", "done"} =>
                      cleanedMarkdown = <<NL, NL>> \o line \o <<NL, NL>>
                /\ pc \in {"map", "done"} =>
                      /\ Units = <<line>>
                      /\ Rule(line) = "normal"
                /\ pc = "done" => IsPlainParagraph(document, line)

\* `**H5: a**` has become one normal paragraph with the text `H5: a`
C23_Witness ==
    /\ pc = "done"
    /\ markdown = <<STAR, STAR, "H", "5", ":", SP, "a", STAR, STAR>>
    /\ Len(document) = 1
    /\ document[1].style = "normal"
    /\ document[1].children
          = << [_type |-> "span", text |-> <<"H", "5", ":", SP, "a">>, marks |-> <<>>] >>

----------------------------------------------------------------------------
(* C21 *)

\* the calls of fn made so far, in order
CallsMade == SelectSeq(retryLog, LAMBDA e : e.kind = "call")

\* the sleeps made so far, in order
SleepsMade == SelectSeq(retryLog, LAMBDA e : e.kind = "sleep")

\* C21: fetchWithRetry calls the wrapped operation at most maxRetries times
\* (3 by default); it returns the result of the first attempt that succeeds
\* and calls the operation no more after it; when all maxRetries attempts
\* fail it rejects with the error of the last attempt; every delay slept
\* before a further attempt is the one before it multiplied by 1.5, hence
\* larger.
C21_BoundedRetry ==
    LET calls  == CallsMade
        sleeps == SleepsMade
    IN  /\ Len(calls) <= maxRetries
        /\ \A k \in 1..Len(calls) : calls[k].attempt = k
        /\ \A k \in 1..(Len(calls) - 1) : calls[k].outcome = "rejected"
        /\ (\E k \in 1..Len(calls) : calls[k].outcome = "resolved") => retryPc = "done"
        /\ retryPc # "done" => retryOutcome = Undefined
        /\ retryPc = "done" =>
              /\ calls # <<>>
              /\ IF calls[Len(calls)].outcome = "resolved"
                 THEN /\ retryOutcome = [kind |-> "returned", value |-> calls[Len(calls)].value]
                      /\ retryLog[Len(retryLog)] = calls[Len(calls)]
                 ELSE /\ Len(calls) = maxRetries
                      /\ retryOutcome = [kind |-> "threw", error |-> calls[Len(calls)].value]
        /\ sleeps # <<>> => sleeps[1].ms = DefaultDelay
        /\ \A k \in 1..(Len(sleeps) - 1) :
              /\ 2 * sleeps[k + 1].ms = 3 * sleeps[k].ms
              /\ sleeps[k + 1].ms > sleeps[k].ms

\* the call with the default maxRetries has rejected with the error of the
\* third attempt, which is not the error of the first
C21_Witness ==
    /\ retryPc = "done"
    /\ maxRetries = DefaultMaxRetries
    /\ Len(CallsMade) = 3
    /\ CallsMade[1].value = [message |-> "OpenAI API responded with status 502"]
    /\ CallsMade[3].value = [message |-> "Missing message content from OpenAI"]
    /\ retryOutcome = [kind |-> "threw",
                       error |-> [message |-> "Missing message content from OpenAI"]]
    /\ SleepsMade[1].ms = 2000
    /\ SleepsMade[2].ms = 3000

----------------------------------------------------------------------------
(* C24 *)

\* every failed call is followed at once by a sleep, every sleep follows a
\* failed call, and nothing follows a call that succeeded
SleepAfterEveryFailure ==
    \A n \in 1..Len(retryLog) :
        /\ (retryLog[n].kind = "call" /\ retryLog[n].outcome = "rejected") =>
              IF n = Len(retryLog) THEN retryPc = "sleep"
              ELSE retryLog[n + 1].kind = "sleep"
        /\ (retryLog[n].kind = "call" /\ retryLog[n].outcome = "resolved") =>
              n = Len(retryLog)
        /\ retryLog[n].kind = "sleep" =>
              /\ n > 1
              /\ retryLog[n - 1].kind = "call"
              /\ retryLog[n - 1].outcome = "rejected"

\* the error reaches the caller in a step that follows the last sleep
ThrowFollowsFinalSleep ==
    (retryPc' = "done" /\ retryPc # "done" /\ retryOutcome'.kind = "threw") =>
        /\ retryLog' = retryLog
        /\ retryLog[Len(retryLog)].kind = "sleep"
        /\ Len(SleepsMade) = maxRetries
        /\ Len(CallsMade) = maxRetries

====
